---- MODULE Spec2Model ----
(***************************************************************************)
(* Google Drive image mirror (main.py).                                    *)
(*                                                                         *)
(* Spec      : one worker process running process_batch over its batch,    *)
(*             with process_folder's recursion kept as an explicit call    *)
(*             stack; the remote store, the clock and every failing call   *)
(*             are the environment.                                        *)
(* SplitSpec : split_batches as a pure function over bounded inputs.       *)
(* CoordSpec : main() as the coordinator of the worker processes.          *)
(* FetchSpec : fetch_computers_folders over a paginated folder listing.    *)
(***************************************************************************)
EXTENDS Integers, Sequences, FiniteSets, TLC

VARIABLES
    now,        \* wall clock, in units of 1/UnitsPerDay day
    files,      \* local mirror: image -> st_mtime, or NoFile
    visible,    \* image entries the remote store currently lists
    stack,      \* process_folder activation records, innermost last
    bi,         \* process_batch: index of the current root folder
    wpc,        \* process_batch: "batch", "running", "done", "crashed"
    dlErr,      \* log: images with an "Error downloading" entry
    resizeLog,  \* log: is there an "Unidentified"/"Error resizing" entry
    folderErr,  \* log: folders with a "Folder error" entry
    finished,   \* log: folders with a "Finished" entry
    escapes,    \* folders whose process_folder call raised to its caller
    last,       \* the most recent iteration of the image loop
    faults,     \* failing calls so far (environment)
    sLst, sN, sOut, spc,                          \* SplitSpec
    cpc, creds, folders, numWorkers, batches,     \* CoordSpec
    procs, pi, wrote, wi, procStatus, warned, termCalled, observed, exitCode,
    allDone, how, joinSaw,
    fPages, fpc, fTok, fOut, fFailedAt, fRequests, fCount   \* FetchSpec

workerVars == <<now, files, visible, stack, bi, wpc, dlErr, resizeLog,
                folderErr, finished, escapes, last, faults>>
splitVars == <<sLst, sN, sOut, spc>>
coordVars == <<cpc, creds, folders, numWorkers, batches, procs, pi, wrote, wi,
               procStatus, warned, termCalled, observed, exitCode, allDone,
               how, joinSaw>>
fetchVars == <<fPages, fpc, fTok, fOut, fFailedAt, fRequests, fCount>>
vars == <<workerVars, splitVars, coordVars, fetchVars>>

----------------------------------------------------------------------------
(* Bounds and program constants *)

UnitsPerDay == 2        \* clock resolution: half days
MaxTicks == 1           \* how far the clock advances during a run
MaxFaults == 1          \* how many calls fail during a run
MaxRoots == 3           \* root folders the enumerator returns
MaxWorkers == 3         \* os.cpu_count() of the machine
MaxLen == 5             \* length of the lists split_batches is applied to
MaxPages == 2           \* pages of the listing of all folders
MaxPageLen == 2         \* entries on one page of that listing
DefaultMaxPasses == 3   \* process_folder(max_passes=3)
DefaultDelay == 30      \* process_folder(delay=30), in seconds
AgeLimitDays == 3       \* file_age.days > 3

NoFile == -1
NoExit == -1
StartTime == 5 * UnitsPerDay                \* the clock when the run starts
FreshAge == 1                               \* half a day old
MidAge == (AgeLimitDays + 1) * UnitsPerDay - 1  \* over 3 days, under 4
OldAge == (AgeLimitDays + 1) * UnitsPerDay + 1  \* over 4 days
\* the ages a local copy of each image may have when the run starts
InitAges(i) ==
    CASE i = "a" -> {FreshAge, MidAge, OldAge}
      [] i = "b" -> {MidAge}
      [] i = "d" -> {OldAge}
      [] OTHER -> {}
LateImages == {"c"}                         \* images that may be listed late

----------------------------------------------------------------------------
(* The remote store: a fixed folder tree, listed page by page *)

RootBatch == <<"R1", "R2">>

Img(n) == [id |-> n, mimeType |-> "image/jpeg"]
Dir(n) == [id |-> n, mimeType |-> "application/vnd.google-apps.folder"]
Doc(n) == [id |-> n, mimeType |-> "application/pdf"]

RemotePages(f) ==
    CASE f = "R1" -> << <<Img("a"), Dir("S")>>, <<Img("b"), Img("c")>> >>
      [] f = "S"  -> << <<Img("d")>> >>
      [] f = "R2" -> << <<Doc("n")>> >>

AllFolders == {"R1", "R2", "S"}
AllImages == {"a", "b", "c", "d"}

RECURSIVE Flatten(_)
Flatten(pages) ==
    IF pages = <<>> THEN <<>> ELSE Head(pages) \o Flatten(Tail(pages))

ImageTypes == {"image/jpeg", "image/png"}   \* the types with 'image/' in them

IsImage(e) == e.mimeType \in ImageTypes
IsFolder(e) == e.mimeType = "application/vnd.google-apps.folder"

ImagesOf(f) ==
    LET all == Flatten(RemotePages(f))
    IN {all[k].id : k \in {j \in 1..Len(all) : IsImage(all[j])}}

SubfoldersOf(f) ==
    LET all == Flatten(RemotePages(f))
    IN {all[k].id : k \in {j \in 1..Len(all) : IsFolder(all[j])}}

Ids(s) == [k \in 1..Len(s) |-> s[k].id]

NumPages(f) == Len(RemotePages(f))

\* response.get('files') of one page: the entries the store lists right now
PageItems(f, page, vis) ==
    SelectSeq(RemotePages(f)[page], LAMBDA e : IsImage(e) => e.id \in vis)

\* response.get('nextPageToken'): 0 stands for no token
NextPageToken(f, page) == IF page < NumPages(f) THEN page + 1 ELSE 0

----------------------------------------------------------------------------
(* process_folder *)

\* the environment lets a call fail while the run's budget lasts
MayFail(ok, n) == ok \/ faults + n <= MaxFaults
Charged(ok, n) == IF ok THEN faults ELSE faults + n

Top == stack[Len(stack)]
SetTop(fr) == [stack EXCEPT ![Len(stack)] = fr]

NoVisit ==
    [img |-> "none", inExisting |-> FALSE, existed |-> FALSE, age |-> 0,
     before |-> NoFile, deleted |-> 0, downloads |-> 0, counted |-> 0,
     pass |-> 0, logged |-> FALSE]

\* mkdir, the "Processing folder" line and the snapshot of the directory
\*   got      files downloaded completely in the current pass
\*   tries    download_image calls per image since the call began
\*   subRuns  process_folder calls per subfolder that returned in this pass
\*   listErr  the pass in which a listing request raised, 0 if none did
NewFrame(f, maxp, delay) ==
    [f |-> f, maxp |-> maxp, delay |-> delay, attempt |-> 0, passes |-> 0,
     pc |-> "pass",
     page |-> 0, idx |-> 0, imgs |-> <<>>, subs |-> <<>>, newFiles |-> 0,
     existing |-> {i \in ImagesOf(f) : files[i] # NoFile},
     dl |-> [i \in ImagesOf(f) |-> 0], del |-> [i \in ImagesOf(f) |-> 0],
     atCall |-> ImagesOf(f) \cap visible, visited |-> {},
     got |-> 0, tries |-> [i \in ImagesOf(f) |-> 0],
     subRuns |-> [d \in SubfoldersOf(f) |-> 0], listErr |-> 0]

\* for attempt in range(max_passes)
InRangeOffByOne(attempt, maxp) == attempt <= maxp
InRange(attempt, maxp) == attempt < maxp

\* timedelta.days: whole days, rounded down
Days(age) == age \div UnitsPerDay

\* file_age.days > 3
IsOld(age) == Days(age) > AgeLimitDays

\* the branch the image loop takes for one entry
RetriesMissing(inExisting, exists, age) ==
    IF inExisting /\ exists
    THEN (IF IsOld(age) THEN "redownload" ELSE "skip")
    ELSE "download"
Decision(inExisting, exists, age) ==
    IF inExisting
    THEN IF exists THEN (IF IsOld(age) THEN "redownload" ELSE "skip")
                   ELSE "ignore"
    ELSE "download"

\* existing_files.add(img['name'])
Forgotten(existing, img) == existing
Remember(existing, img) == existing \cup {img}

\* download_image: the file it leaves behind
\*   "ok"      the transfer completed (resize_image rewrites the file)
\*   "partial" the transfer raised after the target was opened for writing
\*   "fail"    the request raised before the target was opened
Downloaded(cur, out) == IF out = "fail" THEN cur ELSE now

\* new_files += 1: after each call of download_image, whatever came of it
CountsSkips(d) == IF d = "ignore" THEN 0 ELSE 1
Counted(d) == IF d \in {"redownload", "download"} THEN 1 ELSE 0

\* the log lines of one entry: "Deleted old file" and the line of
\* download_image, "Skipped recent file", or none for a listed name
\* without a file
LogsLine(d) == d # "ignore"

\* except Exception: the "Folder error" line and break
ContinuesLoop(fr) == [fr EXCEPT !.pc = "pass", !.attempt = @ + 1]
OnFolderError(fr) == [fr EXCEPT !.pc = "finish"]

\* download_image: does it write an "Error downloading" entry
LogsOnlyPartial(out) == out = "partial"
DownloadLogsError(out) == out # "ok"

PassStart ==
    /\ UNCHANGED <<splitVars, coordVars, fetchVars>>
    /\ wpc = "running" /\ Top.pc = "pass"
    /\ stack' = SetTop(
         IF InRange(Top.attempt, Top.maxp)
         THEN [Top EXCEPT !.pc = "list", !.page = 1, !.newFiles = 0,
                          !.passes = @ + 1, !.got = 0,
                          !.subRuns = [d \in SubfoldersOf(Top.f) |-> 0],
                          !.dl = [i \in ImagesOf(Top.f) |-> 0],
                          !.del = [i \in ImagesOf(Top.f) |-> 0]]
         ELSE [Top EXCEPT !.pc = "finish"])
    /\ UNCHANGED <<now, files, visible, bi, wpc, dlErr, resizeLog, folderErr,
                   finished, escapes, last, faults>>

\* service.files().list(...).execute() for one page, and the two filters
ListPage ==
    /\ UNCHANGED <<splitVars, coordVars, fetchVars>>
    /\ wpc = "running" /\ Top.pc = "list"
    /\ \E ok \in BOOLEAN :
         /\ MayFail(ok, 1)
         /\ faults' = Charged(ok, 1)
         /\ IF ok
            THEN LET items == PageItems(Top.f, Top.page, visible)
                 IN /\ stack' = SetTop([Top EXCEPT
                           !.pc = "images", !.idx = 1,
                           !.imgs = Ids(SelectSeq(items, IsImage)),
                           !.subs = Ids(SelectSeq(items, IsFolder))])
                    /\ UNCHANGED folderErr
            ELSE /\ stack' = SetTop([OnFolderError(Top) EXCEPT
                                           !.listErr = Top.passes])
                 /\ folderErr' = folderErr \cup {Top.f}
    /\ UNCHANGED <<now, files, visible, bi, wpc, dlErr, resizeLog, finished,
                   escapes, last>>

\* one iteration of: for img in images
ImageStep ==
    /\ UNCHANGED <<splitVars, coordVars, fetchVars>>
    /\ wpc = "running" /\ Top.pc = "images" /\ Top.idx <= Len(Top.imgs)
    /\ LET fr == Top
           img == fr.imgs[fr.idx]
           inEx == img \in fr.existing
           exists == files[img] # NoFile
           age == IF exists THEN now - files[img] ELSE 0
           d == Decision(inEx, exists, age)
           loads == d \in {"redownload", "download"}
       IN \E out \in {"ok", "partial", "fail"}, rz \in {"ok", "fail"} :
            /\ ~loads => (out = "ok" /\ rz = "ok")
            /\ out # "ok" => rz = "ok"
            /\ MayFail(out = "ok" /\ rz = "ok", 1)
            /\ faults' = Charged(out = "ok" /\ rz = "ok", 1)
            /\ LET unlinked == IF d = "redownload" THEN NoFile ELSE files[img]
                   nDel == IF d = "redownload" THEN fr.del[img] + 1 ELSE fr.del[img]
                   nDl == IF loads THEN fr.dl[img] + 1 ELSE fr.dl[img]
                   cnt == Counted(d)
                   nGot == IF loads /\ out = "ok" THEN fr.got + 1 ELSE fr.got
               IN /\ files' = [files EXCEPT ![img] =
                                  IF loads THEN Downloaded(unlinked, out) ELSE @]
                  /\ dlErr' = IF loads /\ DownloadLogsError(out)
                              THEN dlErr \cup {img} ELSE dlErr
                  /\ resizeLog' = (resizeLog \/ (loads /\ rz = "fail"))
                  /\ stack' = SetTop([fr EXCEPT
                         !.idx = @ + 1,
                         !.newFiles = @ + cnt,
                         !.existing = IF d = "download" THEN Remember(@, img) ELSE @,
                         !.dl = [@ EXCEPT ![img] = nDl],
                         !.del = [@ EXCEPT ![img] = nDel],
                         !.visited = @ \cup {img},
                         !.got = nGot,
                         !.tries = [@ EXCEPT ![img] = IF loads THEN @ + 1 ELSE @]])
                  /\ last' = [img |-> img, inExisting |-> inEx, existed |-> exists,
                              age |-> age, before |-> files[img], deleted |-> nDel,
                              downloads |-> nDl, counted |-> cnt, pass |-> fr.passes,
                              logged |-> LogsLine(d)]
    /\ UNCHANGED <<now, visible, bi, wpc, folderErr, finished, escapes>>

ImagesDone ==
    /\ UNCHANGED <<splitVars, coordVars, fetchVars>>
    /\ wpc = "running" /\ Top.pc = "images" /\ Top.idx > Len(Top.imgs)
    /\ stack' = SetTop([Top EXCEPT !.pc = "subs", !.idx = 1])
    /\ UNCHANGED <<now, files, visible, bi, wpc, dlErr, resizeLog, folderErr,
                   finished, escapes, last, faults>>

\* one iteration of: for folder in subfolders. The recursive call leaves
\* max_passes and delay to their defaults. Its mkdir or its directory scan
\* may raise: that is raised inside the caller's try block.
SubfolderCall ==
    /\ UNCHANGED <<splitVars, coordVars, fetchVars>>
    /\ wpc = "running" /\ Top.pc = "subs" /\ Top.idx <= Len(Top.subs)
    /\ LET sub == Top.subs[Top.idx]
       IN \E ok \in BOOLEAN :
            /\ MayFail(ok, 1)
            /\ faults' = Charged(ok, 1)
            /\ IF ok
               THEN /\ stack' = Append(stack, NewFrame(sub, DefaultMaxPasses,
                                                         DefaultDelay))
                    /\ UNCHANGED <<folderErr, escapes>>
               ELSE /\ stack' = SetTop(OnFolderError(Top))
                    /\ folderErr' = folderErr \cup {Top.f}
                    /\ escapes' = escapes \cup {sub}
    /\ UNCHANGED <<now, files, visible, bi, wpc, dlErr, resizeLog, finished, last>>

\* page_token = response.get('nextPageToken'); if not page_token: break
PageDone ==
    /\ UNCHANGED <<splitVars, coordVars, fetchVars>>
    /\ wpc = "running" /\ Top.pc = "subs" /\ Top.idx > Len(Top.subs)
    /\ LET tok == NextPageToken(Top.f, Top.page)
       IN stack' = SetTop(IF tok # 0
                          THEN [Top EXCEPT !.pc = "list", !.page = tok]
                          ELSE [Top EXCEPT !.pc = "endpass"])
    /\ UNCHANGED <<now, files, visible, bi, wpc, dlErr, resizeLog, folderErr,
                   finished, escapes, last, faults>>

\* if new_files == 0: break; otherwise sleep and take the next attempt
PassEnd ==
    /\ UNCHANGED <<splitVars, coordVars, fetchVars>>
    /\ wpc = "running" /\ Top.pc = "endpass"
    /\ stack' = SetTop(IF Top.newFiles = 0
                        THEN [Top EXCEPT !.pc = "finish"]
                        ELSE [Top EXCEPT !.pc = "pass", !.attempt = @ + 1])
    /\ UNCHANGED <<now, files, visible, bi, wpc, dlErr, resizeLog, folderErr,
                   finished, escapes, last, faults>>

\* the "Finished" line and the return to the caller
Return ==
    /\ UNCHANGED <<splitVars, coordVars, fetchVars>>
    /\ wpc = "running" /\ Top.pc = "finish"
    /\ finished' = finished \cup {Top.f}
    /\ IF Len(stack) > 1
       THEN LET rest == SubSeq(stack, 1, Len(stack) - 1)
                par == rest[Len(rest)]
            IN /\ stack' = [rest EXCEPT ![Len(rest)] =
                              [par EXCEPT !.idx = @ + 1,
                                          !.subRuns = [@ EXCEPT ![Top.f] = @ + 1]]]
               /\ UNCHANGED <<bi, wpc>>
       ELSE /\ stack' = <<>>
            /\ bi' = bi + 1
            /\ wpc' = "batch"
    /\ UNCHANGED <<now, files, visible, dlErr, resizeLog, folderErr, escapes, last, faults>>

----------------------------------------------------------------------------
(* process_batch *)

\* for folder in batch: process_folder(service, folder['id'], path)
BatchCall ==
    /\ UNCHANGED <<splitVars, coordVars, fetchVars>>
    /\ wpc = "batch" /\ bi <= Len(RootBatch)
    /\ \E ok \in BOOLEAN :
         /\ MayFail(ok, 1)
         /\ faults' = Charged(ok, 1)
         /\ IF ok
            THEN /\ stack' = <<NewFrame(RootBatch[bi], DefaultMaxPasses,
                                         DefaultDelay)>>
                 /\ wpc' = "running"
                 /\ UNCHANGED escapes
            ELSE /\ wpc' = "crashed"
                 /\ escapes' = escapes \cup {RootBatch[bi]}
                 /\ UNCHANGED stack
    /\ UNCHANGED <<now, files, visible, bi, dlErr, resizeLog, folderErr,
                   finished, last>>

BatchDone ==
    /\ UNCHANGED <<splitVars, coordVars, fetchVars>>
    /\ wpc = "batch" /\ bi > Len(RootBatch)
    /\ wpc' = "done"
    /\ UNCHANGED <<now, files, visible, stack, bi, dlErr, resizeLog, folderErr,
                   finished, escapes, last, faults>>

----------------------------------------------------------------------------
(* The environment of the worker *)

Tick ==
    /\ UNCHANGED <<splitVars, coordVars, fetchVars>>
    /\ wpc \in {"batch", "running"}
    /\ now < StartTime + MaxTicks
    /\ now' = now + 1
    /\ UNCHANGED <<files, visible, stack, bi, wpc, dlErr, resizeLog, folderErr,
                   finished, escapes, last, faults>>

\* a late upload shows up in the listings
Arrive ==
    /\ UNCHANGED <<splitVars, coordVars, fetchVars>>
    /\ wpc \in {"batch", "running"}
    /\ \E i \in LateImages \ visible : visible' = visible \cup {i}
    /\ UNCHANGED <<now, files, stack, bi, wpc, dlErr, resizeLog, folderErr,
                   finished, escapes, last, faults>>

FetchIdle ==
    /\ fPages = <<>> /\ fpc = "off" /\ fTok = 0 /\ fOut = <<>> /\ fFailedAt = 0
    /\ fRequests = 0 /\ fCount = NoExit
SplitIdle ==
    /\ sLst = <<>> /\ sN = 1 /\ sOut = <<>> /\ spc = "off"
CoordIdle ==
    /\ cpc = "off" /\ creds = TRUE /\ folders = <<>> /\ numWorkers = 1
    /\ batches = <<>> /\ procs = <<>> /\ pi = 1 /\ wrote = <<>> /\ wi = <<>>
    /\ procStatus = <<>>
    /\ warned = {} /\ termCalled = {} /\ observed = <<>> /\ exitCode = NoExit
    /\ allDone = FALSE /\ how = "none" /\ joinSaw = "none"
WorkerIdle ==
    /\ now = StartTime /\ files = [i \in AllImages |-> NoFile] /\ visible = {}
    /\ stack = <<>> /\ bi = 1 /\ wpc = "off" /\ dlErr = {} /\ resizeLog = FALSE
    /\ folderErr = {} /\ finished = {} /\ escapes = {} /\ last = NoVisit
    /\ faults = 0

\* the local mirror before the run: each image absent, or of one of the ages
InitialFiles ==
    {fs \in [AllImages -> {NoFile} \cup {StartTime - a : a \in {FreshAge, MidAge, OldAge}}] :
        \A i \in AllImages : fs[i] # NoFile => StartTime - fs[i] \in InitAges(i)}

Init ==
    /\ now = StartTime
    /\ files \in InitialFiles
    /\ visible \in {v \in SUBSET AllImages : AllImages \ LateImages \subseteq v}
    /\ stack = <<>> /\ bi = 1 /\ wpc = "batch"
    /\ dlErr = {} /\ resizeLog = FALSE /\ folderErr = {} /\ finished = {}
    /\ escapes = {} /\ last = NoVisit /\ faults = 0
    /\ SplitIdle /\ CoordIdle /\ FetchIdle

WorkerNext ==
    \/ BatchCall \/ BatchDone
    \/ PassStart \/ ListPage \/ ImageStep \/ ImagesDone
    \/ SubfolderCall \/ PageDone \/ PassEnd \/ Return

Next == WorkerNext \/ Tick \/ Arrive

Spec == Init /\ [][Next]_vars

\* The runs that start with work to do in R1: no usable copy of a, and a
\* copy of b that is about to go stale.
FairInit ==
    /\ Init
    /\ files["a"] \in {NoFile, StartTime - OldAge}
    /\ files["b"] = StartTime - MidAge

\* The worker process is scheduled as long as it has a step to take.
FairSpec == FairInit /\ [][Next]_vars /\ WF_vars(WorkerNext)

\* process_folder called directly, with arguments of the caller's choice
CallPassLimits == {1, 2, DefaultMaxPasses}
CallDelays == {0, DefaultDelay}

CallInit ==
    /\ now = StartTime
    /\ files \in {fs \in InitialFiles : fs["a"] = NoFile /\ fs["b"] = NoFile}
    /\ visible \in {v \in SUBSET AllImages : AllImages \ LateImages \subseteq v}
    /\ bi = 1 /\ wpc = "running"
    /\ \E p \in CallPassLimits, d \in CallDelays :
         stack = <<NewFrame(RootBatch[1], p, d)>>
    /\ dlErr = {} /\ resizeLog = FALSE /\ folderErr = {} /\ finished = {}
    /\ escapes = {} /\ last = NoVisit /\ faults = 0
    /\ SplitIdle /\ CoordIdle /\ FetchIdle

CallNext ==
    \/ PassStart \/ ListPage \/ ImageStep \/ ImagesDone \/ SubfolderCall
    \/ PageDone \/ PassEnd \/ Return \/ Tick \/ Arrive

CallSpec == CallInit /\ [][CallNext]_vars

----------------------------------------------------------------------------
(* split_batches *)

Min(a, b) == IF a < b THEN a ELSE b

RootNames == {"A", "B"}
RootLists == UNION {[1..k -> RootNames] : k \in 0..MaxRoots}
SplitLists == UNION {[1..k -> RootNames] : k \in 0..MaxLen}

\* k, m = divmod(len(lst), n); no share of the remainder
SplitNoRemainder(lst, n) ==
    LET k == Len(lst) \div n
    IN [i \in 1..n |-> SubSeq(lst, (i - 1) * k + 1, i * k)]

\* k, m = divmod(len(lst), n)
\* lst[i*k + min(i, m) : (i+1)*k + min(i+1, m)] for i in range(n)
SplitBatches(lst, n) ==
    LET k == Len(lst) \div n
        m == Len(lst) % n
    IN [i \in 1..n |->
          SubSeq(lst, (i - 1) * k + Min(i - 1, m) + 1, i * k + Min(i, m))]

SplitInit ==
    /\ sLst \in SplitLists /\ sN \in 1..MaxWorkers /\ sOut = <<>> /\ spc = "call"
    /\ WorkerIdle /\ CoordIdle /\ FetchIdle

SplitCall ==
    /\ spc = "call"
    /\ sOut' = SplitBatches(sLst, sN)
    /\ spc' = "done"
    /\ UNCHANGED <<sLst, sN, workerVars, coordVars, fetchVars>>

SplitNext == SplitCall

SplitSpec == SplitInit /\ [][SplitNext]_vars

----------------------------------------------------------------------------
(* main: the coordinator and its worker processes *)

\* for i, batch in enumerate(batches): Process(...).start()
OnlyNonEmpty(batch) == batch # <<>>
StartsWorker(batch) == TRUE

\* p.join(timeout=7200) returns once p has ended or the timeout has expired
JoinWithoutTimeout(status) == status # "running"
JoinReturns(status) == TRUE

\* p.exitcode: None while the process has not ended
NoExitCode(status) == NoExit
ExitCodeOf(status) ==
    CASE status = "exited" -> 0
      [] status = "crashed" -> 1
      [] status = "killed" -> -15
      [] OTHER -> NoExit

\* if p.exitcode is None
NeverStalled(code) == FALSE
Stalled(code) == code = NoExit

CoordInit ==
    /\ cpc = "auth" /\ creds \in BOOLEAN /\ folders = <<>>
    /\ numWorkers \in 1..MaxWorkers
    /\ batches = <<>> /\ procs = <<>> /\ pi = 1
    /\ wrote = [w \in 1..numWorkers |-> {}]
    /\ wi = [w \in 1..numWorkers |-> 1]
    /\ procStatus = [w \in 1..numWorkers |-> "unstarted"]
    /\ warned = {} /\ termCalled = {} /\ observed = <<>> /\ exitCode = NoExit
    /\ allDone = FALSE /\ how = "none" /\ joinSaw = "none"
    /\ WorkerIdle /\ SplitIdle /\ FetchIdle

\* the exit status of the coordinator process, by the way main() is left:
\* sys.exit(1) in authenticate_drive, sys.exit(1) in the except clause,
\* the plain return on an empty folder list, sys.exit(0) at the end
EmptyIsFailure(cause) == IF cause = "completed" THEN 0 ELSE 1
ExitStatus(cause) == IF cause \in {"nocreds", "exception"} THEN 1 ELSE 0

\* the head of main(): the first log lines, authenticate_drive and the mkdir
\* of Computers_Drive. Without credentials authenticate_drive logs and
\* exits with 1; an exception raised here (the token refresh, the OAuth
\* flow, the write of token.json, the mkdir) reaches the except clause.
Authenticate ==
    /\ UNCHANGED <<workerVars, splitVars, fetchVars>>
    /\ cpc = "auth"
    /\ \E raised \in BOOLEAN :
         IF ~creds
         THEN /\ ~raised
              /\ cpc' = "exited" /\ how' = "nocreds"
              /\ exitCode' = ExitStatus("nocreds")
         ELSE IF raised
         THEN /\ cpc' = "exited" /\ how' = "exception"
              /\ exitCode' = ExitStatus("exception")
         ELSE cpc' = "fetch" /\ UNCHANGED <<exitCode, how>>
    /\ UNCHANGED <<creds, folders, numWorkers, batches, procs, pi, wrote, wi,
                   procStatus, warned, termCalled, observed, allDone,
                   joinSaw>>

\* folders = fetch_computers_folders(service); if not folders: return
FetchFolders ==
    /\ UNCHANGED <<workerVars, splitVars, fetchVars>>
    /\ cpc = "fetch"
    /\ \E fs \in RootLists :
         /\ folders' = fs
         /\ IF fs = <<>>
            THEN /\ cpc' = "exited" /\ how' = "nofolders"
                 /\ exitCode' = ExitStatus("nofolders")
            ELSE cpc' = "split" /\ UNCHANGED <<exitCode, how>>
    /\ UNCHANGED <<creds, numWorkers, batches, procs, pi, wrote, wi, procStatus,
                   warned, termCalled, observed, allDone,
                   joinSaw>>

\* batches = list(split_batches(folders, num_workers))
MakeBatches ==
    /\ UNCHANGED <<workerVars, splitVars, fetchVars>>
    /\ cpc = "split"
    /\ batches' = SplitBatches(folders, numWorkers)
    /\ cpc' = "start" /\ pi' = 1
    /\ UNCHANGED <<creds, folders, numWorkers, procs, wrote, wi, procStatus,
                   warned, termCalled, observed, exitCode, allDone, how,
                   joinSaw>>

\* one iteration of the start loop
StartWorker ==
    /\ UNCHANGED <<workerVars, splitVars, fetchVars>>
    /\ cpc = "start" /\ pi <= Len(batches)
    /\ IF StartsWorker(batches[pi])
       THEN /\ procs' = Append(procs, pi)
            /\ procStatus' = [procStatus EXCEPT ![pi] = "running"]
       ELSE UNCHANGED <<procs, procStatus>>
    /\ pi' = pi + 1
    /\ UNCHANGED <<cpc, creds, folders, numWorkers, batches, wrote, wi, warned,
                   termCalled, observed, exitCode, allDone, how,
                   joinSaw>>

StartDone ==
    /\ UNCHANGED <<workerVars, splitVars, fetchVars>>
    /\ cpc = "start" /\ pi > Len(batches)
    /\ cpc' = "join" /\ pi' = 1
    /\ UNCHANGED <<creds, folders, numWorkers, batches, procs, wrote, wi,
                   procStatus, warned, termCalled, observed, exitCode, allDone, how,
                   joinSaw>>

\* p.join(timeout=7200)
Join ==
    /\ UNCHANGED <<workerVars, splitVars, fetchVars>>
    /\ cpc = "join" /\ pi <= Len(procs)
    /\ JoinReturns(procStatus[procs[pi]])
    /\ joinSaw' = procStatus[procs[pi]]
    /\ cpc' = "exitcode"
    /\ UNCHANGED <<creds, folders, numWorkers, batches, procs, pi, wrote, wi,
                   procStatus, warned, termCalled, observed, exitCode, allDone, how>>

\* if p.exitcode is None
CheckExitCode ==
    /\ UNCHANGED <<workerVars, splitVars, fetchVars>>
    /\ cpc = "exitcode"
    /\ LET code == ExitCodeOf(procStatus[procs[pi]])
       IN /\ observed' = Append(observed, code)
          /\ IF Stalled(code)
             THEN cpc' = "terminate" /\ UNCHANGED pi
             ELSE cpc' = "join" /\ pi' = pi + 1
    /\ UNCHANGED <<creds, folders, numWorkers, batches, procs, wrote, wi,
                   procStatus, warned, termCalled, exitCode, allDone, how,
                   joinSaw>>

\* p.terminate() and the "Terminated stalled process" warning
Terminate ==
    /\ UNCHANGED <<workerVars, splitVars, fetchVars>>
    /\ cpc = "terminate"
    /\ procStatus' = [procStatus EXCEPT ![procs[pi]] =
                         IF @ = "running" THEN "killed" ELSE @]
    /\ termCalled' = termCalled \cup {procs[pi]}
    /\ warned' = warned \cup {procs[pi]}
    /\ cpc' = "join" /\ pi' = pi + 1
    /\ UNCHANGED <<creds, folders, numWorkers, batches, procs, wrote, wi,
                   observed, exitCode, allDone, how,
                   joinSaw>>

\* the "All batches completed" line and sys.exit(0)
Complete ==
    /\ UNCHANGED <<workerVars, splitVars, fetchVars>>
    /\ cpc = "join" /\ pi > Len(procs)
    /\ allDone' = TRUE /\ cpc' = "exited" /\ how' = "completed"
    /\ exitCode' = ExitStatus("completed")
    /\ UNCHANGED <<creds, folders, numWorkers, batches, procs, pi, wrote, wi,
                   procStatus, warned, termCalled, observed,
                   joinSaw>>

\* process_batch in worker w: one root folder of its batch is reconciled
\* under Computers_Drive/<folder name>
WorkerFolder ==
    /\ UNCHANGED <<workerVars, splitVars, fetchVars>>
    /\ \E w \in 1..numWorkers :
         /\ procStatus[w] = "running" /\ wi[w] <= Len(batches[w])
         /\ wrote' = [wrote EXCEPT ![w] = @ \cup {batches[w][wi[w]]}]
         /\ wi' = [wi EXCEPT ![w] = @ + 1]
         /\ UNCHANGED <<cpc, creds, folders, numWorkers, batches, procs, pi,
                        procStatus, warned, termCalled, observed, exitCode, allDone, how,
                   joinSaw>>

\* process_batch in worker w: process_folder raised (its mkdir or its scan)
WorkerCrash ==
    /\ UNCHANGED <<workerVars, splitVars, fetchVars>>
    /\ \E w \in 1..numWorkers :
         /\ procStatus[w] = "running" /\ wi[w] <= Len(batches[w])
         /\ procStatus' = [procStatus EXCEPT ![w] = "crashed"]
         /\ UNCHANGED <<cpc, creds, folders, numWorkers, batches, procs, pi, wrote,
                        wi, warned, termCalled, observed, exitCode, allDone, how,
                   joinSaw>>

\* process_batch in worker w: the batch is exhausted
WorkerExit ==
    /\ UNCHANGED <<workerVars, splitVars, fetchVars>>
    /\ \E w \in 1..numWorkers :
         /\ procStatus[w] = "running" /\ wi[w] > Len(batches[w])
         /\ procStatus' = [procStatus EXCEPT ![w] = "exited"]
         /\ UNCHANGED <<cpc, creds, folders, numWorkers, batches, procs, pi, wrote,
                        wi, warned, termCalled, observed, exitCode, allDone, how,
                   joinSaw>>

MainNext ==
    \/ Authenticate \/ FetchFolders \/ MakeBatches \/ StartWorker \/ StartDone
    \/ Join \/ CheckExitCode \/ Terminate \/ Complete

CoordNext ==
    \/ Authenticate \/ FetchFolders \/ MakeBatches \/ StartWorker \/ StartDone
    \/ Join \/ CheckExitCode \/ Terminate \/ Complete
    \/ WorkerFolder \/ WorkerCrash \/ WorkerExit

CoordSpec == CoordInit /\ [][CoordNext]_vars

\* The coordinator is scheduled as long as it has a step to take; a worker
\* process may stall for ever.
FairCoordSpec ==
    CoordInit /\ [][CoordNext]_vars /\ WF_vars(MainNext)

----------------------------------------------------------------------------
(* fetch_computers_folders *)

\* folder entries of the listing: two without parents, one with a parent
FolderEntries ==
    {[name |-> "A", parents |-> {}], [name |-> "B", parents |-> {}],
     [name |-> "C", parents |-> {"A"}]}

FolderPages == UNION {[1..k -> FolderEntries] : k \in 0..MaxPageLen}
FolderListings == UNION {[1..k -> FolderPages] : k \in 1..MaxPages}

\* if not f.get('parents')
KeepsAll(e) == TRUE
IsRoot(e) == e.parents = {}

\* response.get('nextPageToken') of the listing of all folders
FolderPageToken(pages, page) == IF page < Len(pages) THEN page + 1 ELSE 0

FetchInit ==
    /\ fPages \in FolderListings /\ fpc = "list" /\ fTok = 1 /\ fOut = <<>>
    /\ fFailedAt = 0 /\ fRequests = 0 /\ fCount = NoExit
    /\ WorkerIdle /\ SplitIdle /\ CoordIdle

\* one turn of the while loop: the page request, folders.extend, the token
FetchPage ==
    /\ UNCHANGED <<workerVars, splitVars, coordVars>>
    /\ fpc = "list"
    /\ fRequests' = fRequests + 1
    /\ \E ok \in BOOLEAN :
         IF ok
         THEN LET tok == FolderPageToken(fPages, fTok)
              IN /\ fOut' = fOut \o SelectSeq(fPages[fTok], IsRoot)
                 /\ fTok' = tok
                 /\ fpc' = IF tok # 0 THEN "list" ELSE "log"
                 /\ UNCHANGED fFailedAt
         ELSE /\ fFailedAt' = fTok
              /\ fpc' = "log"
              /\ UNCHANGED <<fOut, fTok>>
    /\ UNCHANGED <<fPages, fCount>>

\* the "Found n root folders" line and the return
FetchReturn ==
    /\ UNCHANGED <<workerVars, splitVars, coordVars>>
    /\ fpc = "log"
    /\ fCount' = Len(fOut)
    /\ fpc' = "done"
    /\ UNCHANGED <<fPages, fTok, fOut, fFailedAt, fRequests>>

FetchNext == FetchPage \/ FetchReturn

FetchSpec == FetchInit /\ [][FetchNext]_vars

----------------------------------------------------------------------------
(* Properties of process_folder and process_batch *)

AgeLimit == AgeLimitDays * UnitsPerDay
Returning == wpc = "running" /\ Top.pc = "finish"
Present(i) == files[i] # NoFile

\* C1 as stated: when process_folder is about to return, every image the
\* remote store listed under the folder during the whole call has a local
\* file or a download-error entry in the log.
C1_NoSilentAbsence ==
    Returning => \A i \in Top.atCall : Present(i) \/ i \in dlErr

\* C1 amended: when process_folder is about to return, every image entry
\* that its image loop reached in some pass has a local file or a
\* download-error entry in the log.
C1_ReachedImagesAccounted ==
    Returning => \A i \in Top.visited : Present(i) \/ i \in dlErr

C1_Witness ==
    /\ Returning
    /\ \E i \in Top.visited : ~Present(i) /\ i \in dlErr
    /\ \E i \in Top.visited : Present(i) /\ i \notin dlErr

\* C2: an image whose local file exists and is younger than 3 days when the
\* image loop reaches it is not deleted, not downloaded and not counted as
\* new, and its file is left as it was, in every pass of every call.
C2_RecentFileSkipped ==
    (last.img # "none" /\ last.existed /\ last.age < AgeLimit)
        => /\ last.deleted = 0 /\ last.downloads = 0 /\ last.counted = 0
           /\ files[last.img] = last.before

C2_Witness ==
    /\ last.img # "none" /\ last.existed /\ last.age < AgeLimit
    /\ last.pass >= 2 /\ last.downloads = 0

\* C3 as stated: an image whose name is in existing_files and whose local
\* file is more than 3 days old (by any amount) is deleted once, downloaded
\* once and counted as new in that pass.
C3_StaleFileRefreshed ==
    (last.img # "none" /\ last.inExisting /\ last.existed /\ last.age > AgeLimit)
        => last.deleted = 1 /\ last.downloads = 1 /\ last.counted = 1

\* C4: no call of process_folder starts more passes than its max_passes,
\* and the worker's calls of process_folder all come to an end.
PassesBounded == \A k \in 1..Len(stack) : stack[k].passes <= stack[k].maxp
C5_ErrorsStayInFolder ==
    /\ escapes = {}
    /\ wpc \in {"done", "crashed"}
         => \A k \in 1..Len(RootBatch) : RootBatch[k] \in finished

----------------------------------------------------------------------------
(* Properties of split_batches and of main *)

\* C6: split_batches(lst, n) yields n batches whose concatenation is lst,
\* whose sizes differ by at most 1, and of which exactly the first
\* len(lst) mod n hold one element more than the others.
C6_BalancedSplit ==
    spc = "done" =>
        /\ Len(sOut) = sN
        /\ Flatten(sOut) = sLst
        /\ \A i, j \in 1..Len(sOut) : Len(sOut[i]) - Len(sOut[j]) <= 1
        /\ \A i \in 1..Len(sOut) :
             Len(sOut[i]) = (Len(sLst) \div sN)
                            + (IF i <= Len(sLst) % sN THEN 1 ELSE 0)

C6_Witness ==
    /\ spc = "done" /\ sN > 1
    /\ Len(sLst) > sN /\ Len(sLst) % sN > 1
    /\ Len(sOut[1]) = Len(sOut[sN]) + 1

\* C7 as stated: the directories written by different worker processes are
\* disjoint, whatever root folders the enumerator returned.
C7_DisjointSubtrees ==
    \A v, w \in DOMAIN wrote : v # w => wrote[v] \cap wrote[w] = {}

StartLoopDone == cpc \in {"join", "exitcode", "terminate"} \/ allDone
NonEmptyBatches == {i \in DOMAIN batches : batches[i] # <<>>}
Started == {procs[k] : k \in DOMAIN procs}

\* C8 as stated: the processes started are those of the non-empty batches,
\* min(r, n) of them.
C8_WorkerPerNonEmptyBatch ==
    StartLoopDone =>
        /\ Started = NonEmptyBatches
        /\ Len(procs) = Min(Len(folders), numWorkers)

\* C8 amended: the coordinator starts exactly one process for every batch,
\* empty or not: n processes for parallelism n.
C8_WorkerPerBatch ==
    StartLoopDone =>
        /\ procs = [k \in 1..numWorkers |-> k]
        /\ Len(batches) = numWorkers

C8_Witness ==
    /\ StartLoopDone
    /\ \E k \in DOMAIN procs : batches[procs[k]] = <<>>
    /\ Len(procs) > Len(folders)

\* the workers the join loop is through with
Handled ==
    IF cpc = "exited" THEN DOMAIN procs
    ELSE IF cpc \in {"join", "exitcode", "terminate"} THEN 1..(pi - 1)
    ELSE {}

\* C9: once workers were started the coordinator gets to log "All batches
\* completed" and to exit with 0, whatever the workers do; and a worker
\* found without an exit code after its join is terminated, with a warning.
C9_RunCompletes ==
    /\ (procs # <<>>) ~> (allDone /\ exitCode = 0)
    /\ [](\A k \in Handled :
            observed[k] = NoExit
                => procs[k] \in termCalled /\ procs[k] \in warned)

C9_Witness ==
    /\ allDone /\ exitCode = 0
    /\ \E k \in DOMAIN procs : procStatus[procs[k]] = "killed" /\ procs[k] \in warned
    /\ \E k \in DOMAIN procs : procStatus[procs[k]] = "crashed"

\* C10: when "All batches completed" is logged, every worker started has
\* ended by itself or has been terminated by the coordinator.
C10_NoWorkerLeftRunning ==
    allDone =>
        \A k \in DOMAIN procs :
            \/ procStatus[procs[k]] \in {"exited", "crashed"}
            \/ procs[k] \in termCalled /\ procStatus[procs[k]] = "killed"

C10_Witness ==
    /\ allDone
    /\ \E k \in DOMAIN procs : procStatus[procs[k]] = "killed"
    /\ \E k \in DOMAIN procs : procStatus[procs[k]] = "exited" /\ procs[k] \notin termCalled

----------------------------------------------------------------------------
(* Properties of fetch_computers_folders *)

\* the pages fetch_computers_folders got an answer for
PagesRead == IF fFailedAt = 0 THEN Len(fPages) ELSE fFailedAt - 1
RootsOf(pages) == SelectSeq(Flatten(pages), LAMBDA e : e.parents = {})

\* C11: fetch_computers_folders returns (it never raises) exactly the
\* parentless entries, in page order, of the pages listed before the first
\* failing request, asks for no page after a failure, and logs their count.
C11_FetchReturnsPrefix ==
    fpc = "done" =>
        /\ fOut = RootsOf(SubSeq(fPages, 1, PagesRead))
        /\ fRequests = (IF fFailedAt = 0 THEN Len(fPages) ELSE fFailedAt)
        /\ fCount = Len(fOut)

C11_Witness ==
    /\ fpc = "done" /\ fFailedAt = 2
    /\ Len(fOut) = 1 /\ Len(RootsOf(fPages)) > 1 /\ Len(fPages[1]) = 2

----------------------------------------------------------------------------
(* Properties of the exit status *)

\* C12: the coordinator exits with 1 exactly when the credentials were
\* missing or an exception escaped its own code, and with 0 in every other
\* run: when no root folder was found, and when all batches were waited
\* for, whether the workers ended well, crashed or were terminated.
C12_ExitCode ==
    /\ cpc = "exited" =>
         /\ exitCode \in {0, 1}
         /\ exitCode = 1 <=> (~creds \/ how = "exception")
         /\ how = "nofolders" => folders = <<>> /\ exitCode = 0
    /\ allDone => exitCode = 0
    /\ cpc # "exited" => exitCode = NoExit

C12_Witness ==
    /\ cpc = "exited" /\ how = "completed" /\ exitCode = 0
    /\ \E k \in DOMAIN procs : procStatus[procs[k]] = "crashed"
    /\ \E k \in DOMAIN procs : procs[k] \in termCalled

----------------------------------------------------------------------------
(* Properties of the pass loop *)

\* C13: a further pass of a folder is started only after a pass in which
\* at least one file was actually downloaded; a pass whose download
\* attempts all failed ends the loop.
C13_NextPassNeedsDownload ==
    \A k \in DOMAIN stack :
        (stack[k].pc = "pass" /\ stack[k].attempt >= 1
            /\ InRange(stack[k].attempt, stack[k].maxp))
        => stack[k].got > 0

\* a frame whose listing request raised
ListingFailed(fr) == fr.listErr > 0
ErrFrame == stack # <<>> /\ ListingFailed(Top)

\* the return of the top frame to its caller: the parent's loop over the
\* subfolders moves on, or process_batch moves on to its next root folder
ReturnsToCaller ==
    IF Len(stack) > 1
    THEN /\ Len(stack') = Len(stack) - 1
         /\ stack'[Len(stack')].pc = "subs"
         /\ stack'[Len(stack')].idx = stack[Len(stack) - 1].idx + 1
         /\ stack'[Len(stack')].passes = stack[Len(stack) - 1].passes
    ELSE stack' = <<>> /\ wpc' = "batch" /\ bi' = bi + 1

\* the caller of the failed frame is running again: the parent's frame is
\* on top, or process_batch has called process_folder for the next root
\* folder (which put a frame on the stack, or raised before its try block),
\* or the failed frame was that of the last root folder
CallerResumed ==
    /\ ~ErrFrame
    /\ \/ stack # <<>>
       \/ RootBatch[Len(RootBatch)] \in finished \cup escapes

\* C14: when a listing request raises in pass k of a folder, the error is
\* logged, the folder starts no pass k+1, its process_folder returns to the
\* caller, which goes on where it was, and process_folder is called for the
\* root folder that follows in the batch.
C14_ListingErrorStopsFolder ==
    /\ [](\A k \in DOMAIN stack :
            ListingFailed(stack[k]) =>
                /\ k = Len(stack)
                /\ stack[k].pc = "finish"
                /\ stack[k].passes = stack[k].listErr
                /\ stack[k].f \in folderErr)
    /\ [][ErrFrame => (wpc' = "running" /\ stack' = stack) \/ ReturnsToCaller]_vars
    /\ ErrFrame ~> CallerResumed

C14_Witness ==
    /\ ErrFrame /\ Top.f = RootBatch[1]
    /\ Top.listErr = 2 /\ Top.listErr < Top.maxp

\* C15: every recursive call of process_folder runs with the pass limit and
\* the delay of the call that made it.
C15_SamePolicyInSubfolders ==
    \A k \in DOMAIN stack :
        k > 1 => /\ stack[k].maxp = stack[k - 1].maxp
                 /\ stack[k].delay = stack[k - 1].delay

----------------------------------------------------------------------------
(* Properties of existing_files *)

\* the clock moves by less than the age limit during a run
ShortRun == MaxTicks < AgeLimit

\* C16: in one call of process_folder download_image is called at most once
\* for an image name, over all the passes; existing_files never loses a
\* name; and an entry whose name is in existing_files while its file is
\* missing is passed over: no download, no count, no log line, so a
\* download that failed is not tried again in a later pass.
C16_OneAttemptPerName ==
    /\ [](ShortRun =>
            \A k \in DOMAIN stack : \A i \in DOMAIN stack[k].tries :
                /\ stack[k].tries[i] <= 1
                /\ stack[k].tries[i] = 1 => i \in stack[k].existing)
    /\ []((last.img # "none" /\ last.inExisting /\ ~last.existed)
            => /\ last.downloads = 0 /\ last.counted = 0 /\ ~last.logged
               /\ files[last.img] = NoFile)
    /\ [][\A k \in DOMAIN stack :
            (k <= Len(stack') /\ Len(stack') >= Len(stack))
                => stack[k].existing \subseteq stack'[k].existing]_vars

C16_Witness ==
    /\ last.img # "none" /\ last.inExisting /\ ~last.existed
    /\ stack # <<>> /\ Top.f = RootBatch[1]
    /\ last.img \in DOMAIN Top.tries
    /\ Top.tries[last.img] = 1 /\ last.pass = 2
    /\ last.img \in dlErr /\ files[last.img] = NoFile

----------------------------------------------------------------------------
(* Properties of new_files and of the recursion *)

RECURSIVE SumOver(_, _)
SumOver(fn, S) ==
    IF S = {} THEN 0
    ELSE LET x == CHOOSE y \in S : TRUE IN fn[x] + SumOver(fn, S \ {x})

\* the subfolders listed on the pages 1..n of a folder
ListedSubfolders(f, n) ==
    {e.id : e \in {x \in {Flatten(SubSeq(RemotePages(f), 1, n))[j] :
                          j \in 1..Len(Flatten(SubSeq(RemotePages(f), 1, n)))} :
                   IsFolder(x)}}

\* C17: new_files of a folder counts the download attempts for its own
\* images in the current pass and nothing else: while a subfolder is being
\* reconciled, and when it returns, the parent's count does not move,
\* whatever was downloaded below. A pass that reaches its end has called
\* process_folder once for every subfolder it listed, and every call has
\* run to its return.
C17_OwnImagesDecidePass ==
    /\ [](\A k \in DOMAIN stack :
            /\ stack[k].newFiles = SumOver(stack[k].dl, DOMAIN stack[k].dl)
            /\ \A d \in DOMAIN stack[k].subRuns : stack[k].subRuns[d] <= 1
            /\ stack[k].pc = "subs" =>
                 \A j \in 1..(stack[k].idx - 1) :
                     stack[k].subRuns[stack[k].subs[j]] = 1
            /\ stack[k].pc = "endpass" =>
                 \A d \in ListedSubfolders(stack[k].f, NumPages(stack[k].f)) :
                     stack[k].subRuns[d] = 1)
    /\ [][\A k \in DOMAIN stack :
            (k < Len(stack) /\ k <= Len(stack'))
                => /\ stack'[k].newFiles = stack[k].newFiles
                   /\ stack'[k].passes = stack[k].passes]_vars
    /\ [][(stack # <<>> /\ stack' # stack /\ Len(stack') = Len(stack)
             /\ Top.pc = "endpass")
            => (stack'[Len(stack')].pc = "pass") = (Top.newFiles > 0)]_vars

C17_Witness ==
    /\ stack # <<>> /\ Top.f = RootBatch[1] /\ Top.pc = "finish"
    /\ Top.passes = 1 /\ Top.newFiles = 0 /\ Top.listErr = 0
    /\ RootBatch[1] \notin folderErr
    /\ Top.subRuns["S"] = 1 /\ files["d"] >= StartTime

----------------------------------------------------------------------------
(* Properties of the start loop and the join loop *)

\* the coordinator has begun to wait for a worker
Waiting == joinSaw # "none" \/ cpc \in {"join", "exitcode", "terminate"}

\* the worker of the last join that returned had ended by then
EndedAtJoin == joinSaw \notin {"none", "running"}

\* C18: the coordinator waits for no worker before it has started all of
\* them; it calls terminate only for a worker that had no exit code when
\* read after its join had returned; and for a worker that had ended when
\* its join returned there is no terminate and no warning.
C18_StartAllThenJoin ==
    /\ Waiting => Started = DOMAIN batches /\ Len(procs) = Len(batches)
    /\ cpc = "start" => joinSaw = "none" /\ observed = <<>> /\ termCalled = {}
    /\ \A w \in termCalled \cup warned :
         \E k \in DOMAIN observed : procs[k] = w /\ observed[k] = NoExit
    /\ cpc = "terminate" => observed[pi] = NoExit /\ joinSaw = "running"
    /\ (cpc = "exitcode" /\ EndedAtJoin) => procs[pi] \notin termCalled \cup warned
    /\ (cpc \in {"join", "exited"} /\ EndedAtJoin) =>
         /\ observed[pi - 1] # NoExit
         /\ procs[pi - 1] \notin termCalled \cup warned

C18_Witness ==
    /\ cpc = "join" /\ pi = 3 /\ EndedAtJoin
    /\ procs[2] \notin termCalled \cup warned
    /\ procs[1] \in termCalled /\ observed[1] = NoExit

====
